---- MODULE Spec2Model ----
(***************************************************************************)
(* A model of the lite-orm transactional object engine                     *)
(* (src/src/transaction.rs) over its row execution layer                   *)
(* (src/src/storage.rs), its value model (src/src/data.rs) and its error   *)
(* translator (src/src/error.rs).                                          *)
(*                                                                         *)
(* The specifications:                                                     *)
(*   Spec          the engine driven through its public surface: create,   *)
(*                 get, commit, rollback and the handle operations, over   *)
(*                 a sequence of transactions on one backend;              *)
(*   SpecRow       the row execution layer driven directly, one backend    *)
(*                 operation per step;                                     *)
(*   SpecRowW      the row layer with a descriptor wider than the table;   *)
(*   SpecAlias     the engine with two record types over one table;        *)
(*   SpecCreateGet the engine restricted to create, get and commit;        *)
(*   SpecConv      the type reconciliation of rows read;                   *)
(*   SpecRound     to_row and from_row over the records of a type.         *)
(***************************************************************************)
EXTENDS Integers, Sequences, FiniteSets, TLC

VARIABLES
    committed,  \* the backend's committed tables
    working,    \* the tables as the open backend transaction sees them
    status,     \* "open" | "committed" | "rolledback" | "failed" | "panicked" | "row"
    txCount,    \* transactions opened so far
    heap,       \* the TxState allocations (Rc cells) of the transaction, by reference
    objects,    \* Transaction::objects, (schema, id) -> reference of its TxState
    handles,    \* the Tx handles returned to the caller
    calls,      \* backend calls issued by the last operation, in order
    result,     \* what the last operation returned
    deleted     \* history: heap cells on which delete() completed

vars == <<committed, working, status, txCount, heap, objects, handles, calls, result, deleted>>

----------------------------------------------------------------------------
(* Bounds                                                                  *)

\* rows the backend's tables receive in all (caps the AUTOINCREMENT counters)
MaxRows == 2
\* transactions opened one after the other
MaxTx == 2
\* guards (Ref / RefMut) outstanding at once over the whole transaction
MaxGuards == 1

Ids == 1..MaxRows

\* native String values a record field takes; "7" is a well-formed integer literal
Strings == {"a", "7"}

\* injected backend failures: none, SQLITE_BUSY, any other SqliteFailure
Faults == {"none", "busy", "other"}

----------------------------------------------------------------------------
(* data.rs: DataType and Value                                             *)

\* DataType::name, also its Display
DataTypeName(ty) ==
    CASE ty = "String" -> "String"
      [] ty = "Bytes" -> "Bytes"
      [] ty = "Int64" -> "Int64"
      [] ty = "Float64" -> "Float64"
      [] ty = "Bool" -> "Bool"

\* Value::data_type: a value carries its tag
data_type(v) == v.tag

\* Value::sql_type
sql_type(v) ==
    CASE v.tag = "String" -> "Text"
      [] v.tag = "Bytes" -> "Blob"
      [] v.tag \in {"Int64", "Bool"} -> "Integer"
      [] v.tag = "Float64" -> "Real"

\* a conversion that tags every native value as a String
to_value_string(ty, x) == [tag |-> "String", v |-> x]

\* ValueConvert::to_value for the native type whose DetectDataType::TYPE is ty
to_value(ty, x) == [tag |-> ty, v |-> x]

\* ValueConvert::from_value: the payload when the tag matches, otherwise panic
from_value_ok(ty, v) == v.tag = ty

from_value(ty, v) == v.v

\* impl ToSql for Value: the storage class the value is bound with
ToSql(v) ==
    CASE v.tag = "String" -> [cls |-> "Text", v |-> v.v]
      [] v.tag = "Bytes" -> [cls |-> "Blob", v |-> v.v]
      [] v.tag = "Int64" -> [cls |-> "Integer", v |-> v.v]
      [] v.tag = "Float64" -> [cls |-> "Real", v |-> v.v]
      [] v.tag = "Bool" -> [cls |-> "Integer", v |-> IF v.v THEN 1 ELSE 0]

\* impl FromSql for Value: column_result; Null is FromSqlError::InvalidType
FromSqlOk(sv) == sv.cls # "Null"

FromSql(sv) ==
    CASE sv.cls = "Text" -> to_value("String", sv.v)
      [] sv.cls = "Blob" -> to_value("Bytes", sv.v)
      [] sv.cls = "Integer" -> to_value("Int64", sv.v)
      [] sv.cls = "Real" -> to_value("Float64", sv.v)

----------------------------------------------------------------------------
(* object.rs / orm-derive: descriptors and records                         *)

\* #[derive(Object)] struct A { name: String }
SchemaA ==
    [table_name |-> "A", type_name |-> "A",
     columns |-> <<[name |-> "name", ty |-> "String"]>>, attrs |-> <<"name">>]

\* #[derive(Object)] struct Z;  (no fields, no columns)
SchemaZ ==
    [table_name |-> "Z", type_name |-> "Z", columns |-> <<>>, attrs |-> <<>>]

\* the record types the engine is driven with, and those the row layer is
Schemas == {SchemaA}

RowSchemas == {SchemaA, SchemaZ}

NoSchema == [table_name |-> "", type_name |-> "", columns |-> <<>>, attrs |-> <<>>]

TableNames == {s.table_name : s \in RowSchemas}

\* #[derive(Object)] #[table_name("A")] struct A1 { name: String }
SchemaA1 == [SchemaA EXCEPT !.type_name = "A1"]

\* #[derive(Object)] #[table_name("A")] struct W { name: String, #[column_name("extra")] more: String }
SchemaW ==
    [table_name |-> "A", type_name |-> "W",
     columns |-> <<[name |-> "name", ty |-> "String"], [name |-> "extra", ty |-> "String"]>>,
     attrs |-> <<"name", "more">>]

\* the native values of a column type
NativeValues(ty) ==
    CASE ty = "String" -> Strings
      [] ty = "Bytes" -> {"b"}
      [] ty = "Int64" -> {0, 1, 2}
      [] ty = "Float64" -> {5}
      [] ty = "Bool" -> BOOLEAN

\* the records of a type whose first n attributes are set
RECURSIVE RecordsUpTo(_, _)
RecordsUpTo(s, n) ==
    IF n = 0 THEN {<<>>}
    ELSE {Append(r, x) : r \in RecordsUpTo(s, n - 1), x \in NativeValues(s.columns[n].ty)}

\* the records of a type: one native value per attribute, in declaration order
Records(s) == RecordsUpTo(s, Len(s.attrs))

\* derived Object::to_row: self.attr.to_value() for each attribute
to_row(s, rec) == [i \in 1..Len(rec) |-> to_value(s.columns[i].ty, rec[i])]

\* derived Object::from_row: row[i].convert() for each attribute; panics on a
\* short row or on a tag that is not the field's
from_row_ok(s, row) ==
    /\ Len(row) >= Len(s.attrs)
    /\ \A i \in 1..Len(s.attrs) : from_value_ok(s.columns[i].ty, row[i])

from_row(s, row) == [i \in 1..Len(s.attrs) |-> from_value(s.columns[i].ty, row[i])]

----------------------------------------------------------------------------
(* error.rs: the domain errors and the translation of backend failures     *)

NoErr ==
    [kind |-> "", object_id |-> 0, type_name |-> "", attr_name |-> "",
     table_name |-> "", column_name |-> "", expected_type |-> "", got_type |-> ""]

NotFoundError(id, tn) ==
    [NoErr EXCEPT !.kind = "NotFound", !.object_id = id, !.type_name = tn]

UnexpectedTypeError(tn, an, tab, col, exp, got) ==
    [NoErr EXCEPT !.kind = "UnexpectedType", !.type_name = tn, !.attr_name = an,
                  !.table_name = tab, !.column_name = col, !.expected_type = exp,
                  !.got_type = got]

MissingColumnError(tn, an, tab, col) ==
    [NoErr EXCEPT !.kind = "MissingColumn", !.type_name = tn, !.attr_name = an,
                  !.table_name = tab, !.column_name = col]

LockConflict == [NoErr EXCEPT !.kind = "LockConflict"]

\* ErrorCtx: every field an Option, <<>> for None and <<x>> for Some(x)
DefaultCtx ==
    [object_id |-> <<>>, type_name |-> <<>>, attr_name |-> <<>>, table_name |-> <<>>,
     column_name |-> <<>>, expected_type |-> <<>>, got_type |-> <<>>]

\* a context that loses the identity asked for
CtxNotFound_noid(id, tn) == [DefaultCtx EXCEPT !.object_id = <<0>>, !.type_name = <<tn>>]

\* ErrorCtx::not_found
CtxNotFound(id, tn) == [DefaultCtx EXCEPT !.object_id = <<id>>, !.type_name = <<tn>>]

\* the failures rusqlite reports, by the kinds the translator tells apart
RusqliteError(kind) == [kind |-> kind, idx |-> 0, ty |-> "", col |-> ""]

NoRows == RusqliteError("QueryReturnedNoRows")

InvalidColumnType(i, ty) == [RusqliteError("InvalidColumnType") EXCEPT !.idx = i, !.ty = ty]

NoSuchColumn(col) == [RusqliteError("NoSuchColumn") EXCEPT !.col = col]

\* the failure an injected fault makes the backend report
FaultError(f) == IF f = "busy" THEN RusqliteError("DatabaseBusy") ELSE RusqliteError("Other")

AllSome(ctx, fields) == \A fld \in fields : ctx[fld] # <<>>

\* impl From<ErrorWithCtx<rusqlite::Error>> for Error; panic is an unwrap of a
\* missing context field or the unimplemented!() arm
ErrorFrom(e, ctx) ==
    CASE e.kind = "QueryReturnedNoRows" ->
           IF AllSome(ctx, {"object_id", "type_name"})
           THEN [panic |-> FALSE, err |-> NotFoundError(ctx.object_id[1], ctx.type_name[1])]
           ELSE [panic |-> TRUE, err |-> NoErr]
      [] e.kind = "InvalidColumnType" ->
           IF AllSome(ctx, {"type_name", "attr_name", "table_name", "column_name",
                            "expected_type", "got_type"})
           THEN [panic |-> FALSE,
                 err |-> UnexpectedTypeError(ctx.type_name[1], ctx.attr_name[1],
                                             ctx.table_name[1], ctx.column_name[1],
                                             ctx.expected_type[1], ctx.got_type[1])]
           ELSE [panic |-> TRUE, err |-> NoErr]
      [] e.kind = "DatabaseBusy" -> [panic |-> FALSE, err |-> LockConflict]
      [] e.kind = "NoSuchColumn" ->
           IF AllSome(ctx, {"type_name", "attr_name", "table_name", "column_name"})
           THEN [panic |-> FALSE,
                 err |-> MissingColumnError(ctx.type_name[1], ctx.attr_name[1],
                                            ctx.table_name[1], ctx.column_name[1])]
           ELSE [panic |-> TRUE, err |-> NoErr]
      [] OTHER -> [panic |-> TRUE, err |-> NoErr]

\* impl From<rusqlite::Error> for Error
ErrorFromRaw(e) == ErrorFrom(e, DefaultCtx)

\* a lookup that always answers with the first column
ColumnPos_first(schema, col) == 1

\* position of a column name in a descriptor, 0 when it has none
ColumnPos(schema, col) ==
    IF \E i \in 1..Len(schema.columns) : schema.columns[i].name = col
    THEN CHOOSE i \in 1..Len(schema.columns) :
           /\ schema.columns[i].name = col
           /\ \A j \in 1..(i - 1) : schema.columns[j].name # col
    ELSE 0

\* storage.rs error_by_scheme: attach the descriptor's context, then translate
error_by_scheme(schema, e, id) ==
    CASE e.kind = "QueryReturnedNoRows" -> ErrorFrom(e, CtxNotFound(id, schema.type_name))
      [] e.kind = "InvalidColumnType" ->
           ErrorFrom(e, [DefaultCtx EXCEPT
                           !.table_name = <<schema.table_name>>,
                           !.type_name = <<schema.type_name>>,
                           !.attr_name = <<schema.attrs[e.idx]>>,
                           !.column_name = <<schema.columns[e.idx].name>>,
                           !.expected_type = <<schema.columns[e.idx].ty>>,
                           !.got_type = <<e.ty>>])
      [] e.kind = "NoSuchColumn" ->
           LET pos == ColumnPos(schema, e.col)
           IN  IF pos = 0
               THEN [panic |-> TRUE, err |-> NoErr]
               ELSE ErrorFrom(e, [DefaultCtx EXCEPT
                                    !.table_name = <<schema.table_name>>,
                                    !.type_name = <<schema.type_name>>,
                                    !.column_name = <<schema.columns[pos].name>>,
                                    !.attr_name = <<schema.attrs[pos]>>])
      [] OTHER -> ErrorFrom(e, DefaultCtx)

----------------------------------------------------------------------------
(* storage.rs: the row execution layer over one backend transaction        *)

\* a table the backend does not hold
NoTable == [exists |-> FALSE, cols |-> <<>>, rows |-> <<>>, seq |-> 0]

NoTables == [t \in TableNames |-> NoTable]

\* the affinity SQLite gives a column from its declared type name, by substring:
\* "INT" -> INTEGER; "CHAR"/"CLOB"/"TEXT" -> TEXT; "BLOB" -> BLOB;
\* "REAL"/"FLOA"/"DOUB" -> REAL; otherwise NUMERIC. create_table declares a column
\* with DataType's Display name
Affinity(decl) ==
    CASE decl = "Int64" -> "INTEGER"
      [] decl = "Float64" -> "REAL"
      [] decl \in {"String", "Bytes", "Bool"} -> "NUMERIC"

\* texts that are well-formed integer literals, with their value
IntLiteral == [s \in {"7"} |-> 7]

\* the storage class a bound value is stored with in a column of that affinity
ApplyAffinity(aff, sv) ==
    IF sv.cls = "Text" /\ sv.v \in DOMAIN IntLiteral /\ aff \in {"NUMERIC", "INTEGER", "REAL"}
    THEN [cls |-> IF aff = "REAL" THEN "Real" ELSE "Integer", v |-> IntLiteral[sv.v]]
    ELSE sv

Null == [cls |-> "Null", v |-> 0]

ColNames(tab) == {tab.cols[i].name : i \in 1..Len(tab.cols)}

DeclOf(tab, col) == tab.cols[CHOOSE i \in 1..Len(tab.cols) : tab.cols[i].name = col].decl

\* the first column of the descriptor that the table lacks, 0 when it has them all
FirstMissing(schema, tab) ==
    IF \E i \in 1..Len(schema.columns) : schema.columns[i].name \notin ColNames(tab)
    THEN CHOOSE i \in 1..Len(schema.columns) :
           /\ schema.columns[i].name \notin ColNames(tab)
           /\ \A j \in 1..(i - 1) : schema.columns[j].name \in ColNames(tab)
    ELSE 0

\* rows the tables have received: the sum of their AUTOINCREMENT counters
RECURSIVE RowsIn(_, _)
RowsIn(w, ts) ==
    IF ts = {} THEN 0
    ELSE LET t == CHOOSE x \in ts : TRUE
         IN  w[t].seq + RowsIn(w, ts \ {t})

\* results of a backend operation: Ok(val) with the tables after it, Err(err), or a panic
RowOk(w, val) == [st |-> "ok", err |-> NoErr, w |-> w, val |-> val]

RowFail(w, ef) ==
    IF ef.panic
    THEN [st |-> "panic", err |-> NoErr, w |-> w, val |-> 0]
    ELSE [st |-> "err", err |-> ef.err, w |-> w, val |-> 0]

\* StorageTransaction::table_exists: any failure of the query reads as "absent"
table_exists(w, table, f) == RowOk(w, f = "none" /\ w[table].exists)

\* StorageTransaction::create_table
create_table(w, schema, f) ==
    LET t == schema.table_name
    IN  IF f # "none" THEN RowFail(w, ErrorFromRaw(FaultError(f)))
        ELSE IF w[t].exists THEN RowFail(w, ErrorFromRaw(RusqliteError("Other")))
        ELSE RowOk([w EXCEPT ![t] =
                      [exists |-> TRUE,
                       cols |-> [i \in 1..Len(schema.columns) |->
                                   [name |-> schema.columns[i].name,
                                    decl |-> DataTypeName(schema.columns[i].ty)]],
                       rows |-> <<>>,
                       seq |-> 0]], 0)

\* the row an INSERT / UPDATE of the descriptor's columns leaves in the table
StoredRow(tab, schema, row, old) ==
    [c \in ColNames(tab) |->
       LET pos == ColumnPos(schema, c)
       IN  IF pos # 0 /\ pos <= Len(row)
           THEN ApplyAffinity(Affinity(DeclOf(tab, c)), ToSql(row[pos]))
           ELSE old[c]]

NullRow(tab) == [c \in ColNames(tab) |-> Null]

PutRow(rows, id, r) == [i \in DOMAIN rows \cup {id} |-> IF i = id THEN r ELSE rows[i]]

DropRow(rows, id) == [i \in DOMAIN rows \ {id} |-> rows[i]]

\* an insert that hands out the last identity of the table again
insert_row_reuse(w, schema, row, f) ==
    LET t == schema.table_name
        tab == w[t]
        id == IF tab.seq = 0 THEN 1 ELSE tab.seq
        miss == IF Len(row) = 0 THEN 0 ELSE FirstMissing(schema, tab)
    IN  IF f # "none" THEN RowFail(w, error_by_scheme(schema, FaultError(f), tab.seq))
        ELSE IF ~tab.exists
             THEN RowFail(w, error_by_scheme(schema, RusqliteError("Other"), tab.seq))
        ELSE IF miss # 0
             THEN RowFail(w, error_by_scheme(schema, NoSuchColumn(schema.columns[miss].name),
                                             tab.seq))
        ELSE RowOk([w EXCEPT ![t].rows = PutRow(tab.rows, id,
                                                  StoredRow(tab, schema, row, NullRow(tab))),
                             ![t].seq = id], id)

\* StorageTransaction::insert_row
insert_row(w, schema, row, f) ==
    LET t == schema.table_name
        tab == w[t]
        id == tab.seq + 1
        miss == IF Len(row) = 0 THEN 0 ELSE FirstMissing(schema, tab)
    IN  IF f # "none" THEN RowFail(w, error_by_scheme(schema, FaultError(f), tab.seq))
        ELSE IF ~tab.exists
             THEN RowFail(w, error_by_scheme(schema, RusqliteError("Other"), tab.seq))
        ELSE IF miss # 0
             THEN RowFail(w, error_by_scheme(schema, NoSuchColumn(schema.columns[miss].name),
                                             tab.seq))
        ELSE RowOk([w EXCEPT ![t].rows = PutRow(tab.rows, id,
                                                  StoredRow(tab, schema, row, NullRow(tab))),
                             ![t].seq = id], id)

\* storage.rs row_exists
row_exists(w, id, schema, f) ==
    LET tab == w[schema.table_name]
    IN  IF f # "none" THEN RowFail(w, error_by_scheme(schema, FaultError(f), id))
        ELSE IF ~tab.exists
             THEN RowFail(w, error_by_scheme(schema, RusqliteError("Other"), id))
        ELSE IF id \in DOMAIN tab.rows THEN RowOk(w, 0)
        ELSE RowFail(w, error_by_scheme(schema, NoRows, id))

\* StorageTransaction::update_row
update_row(w, id, schema, row, f) ==
    LET t == schema.table_name
        tab == w[t]
        miss == FirstMissing(schema, tab)
    IN  IF Len(schema.columns) = 0 THEN row_exists(w, id, schema, f)
        ELSE IF f # "none" THEN RowFail(w, error_by_scheme(schema, FaultError(f), id))
        ELSE IF ~tab.exists
             THEN RowFail(w, error_by_scheme(schema, RusqliteError("Other"), id))
        ELSE IF miss # 0
             THEN RowFail(w, error_by_scheme(schema, NoSuchColumn(schema.columns[miss].name), id))
        ELSE IF id \in DOMAIN tab.rows
             THEN RowOk([w EXCEPT ![t].rows =
                           PutRow(tab.rows, id, StoredRow(tab, schema, row, tab.rows[id]))], 0)
        ELSE RowOk(w, 0)

\* a reconciliation that takes any integer for a Bool
Reconciles_anyint(ty, v) ==
    \/ data_type(v) = ty
    \/ ty = "Bool" /\ v.tag = "Int64"

\* storage.rs convert_by_schema: the first column whose value is neither of the
\* declared type nor an Int64 0 or 1 under a declared Bool, 0 when there is none
Reconciles(ty, v) ==
    \/ data_type(v) = ty
    \/ ty = "Bool" /\ v.tag = "Int64" /\ v.v \in 0..1

FirstUnreconciled(val, schema) ==
    LET n == IF Len(val) < Len(schema.columns) THEN Len(val) ELSE Len(schema.columns)
    IN  IF \E i \in 1..n : ~Reconciles(schema.columns[i].ty, val[i])
        THEN CHOOSE i \in 1..n :
               /\ ~Reconciles(schema.columns[i].ty, val[i])
               /\ \A j \in 1..(i - 1) : Reconciles(schema.columns[j].ty, val[j])
        ELSE 0

convert_by_schema(w, val, schema) ==
    LET bad == FirstUnreconciled(val, schema)
        n == IF Len(val) < Len(schema.columns) THEN Len(val) ELSE Len(schema.columns)
    IN  IF bad # 0
        THEN RowFail(w, [panic |-> FALSE,
                         err |-> UnexpectedTypeError(schema.type_name, schema.attrs[bad],
                                                     schema.table_name,
                                                     schema.columns[bad].name,
                                                     schema.columns[bad].ty,
                                                     sql_type(val[bad]))])
        ELSE RowOk(w, [i \in 1..n |->
                         IF data_type(val[i]) = schema.columns[i].ty
                         THEN val[i]
                         ELSE to_value("Bool", val[i].v # 0)])

\* the first selected column whose stored value is NULL, 0 when there is none
FirstNull(schema, r) ==
    IF \E i \in 1..Len(schema.columns) : ~FromSqlOk(r[schema.columns[i].name])
    THEN CHOOSE i \in 1..Len(schema.columns) :
           /\ ~FromSqlOk(r[schema.columns[i].name])
           /\ \A j \in 1..(i - 1) : FromSqlOk(r[schema.columns[j].name])
    ELSE 0

\* StorageTransaction::select_row
select_row(w, id, schema, f) ==
    LET tab == w[schema.table_name]
        miss == FirstMissing(schema, tab)
    IN  IF Len(schema.columns) = 0
        THEN LET e == row_exists(w, id, schema, f)
             IN  IF e.st = "ok" THEN RowOk(w, <<>>) ELSE e
        ELSE IF f # "none" THEN RowFail(w, error_by_scheme(schema, FaultError(f), id))
        ELSE IF ~tab.exists
             THEN RowFail(w, error_by_scheme(schema, RusqliteError("Other"), id))
        ELSE IF miss # 0
             THEN RowFail(w, error_by_scheme(schema, NoSuchColumn(schema.columns[miss].name), id))
        ELSE IF id \notin DOMAIN tab.rows
             THEN RowFail(w, error_by_scheme(schema, NoRows, id))
        ELSE LET r == tab.rows[id]
                 nul == FirstNull(schema, r)
             IN  IF nul # 0
                 THEN RowFail(w, error_by_scheme(schema, InvalidColumnType(nul, "Null"), id))
                 ELSE convert_by_schema(w, [i \in 1..Len(schema.columns) |->
                                              FromSql(r[schema.columns[i].name])], schema)

\* StorageTransaction::delete_row
delete_row(w, id, schema, f) ==
    LET t == schema.table_name
    IN  IF f # "none" THEN RowFail(w, ErrorFromRaw(FaultError(f)))
        ELSE IF ~w[t].exists THEN RowFail(w, ErrorFromRaw(RusqliteError("Other")))
        ELSE RowOk([w EXCEPT ![t].rows = DropRow(w[t].rows, id)], 0)

\* StorageTransaction::commit and StorageTransaction::rollback: one statement each
end_statement(w, f) ==
    IF f # "none" THEN RowFail(w, ErrorFromRaw(FaultError(f))) ELSE RowOk(w, 0)

\* a backend whose rollback keeps what the transaction wrote
RolledBack_keeps(w, c) == w

\* the tables the backend holds once a transaction that saw w over the committed
\* tables c has ended by ROLLBACK, or was dropped without a COMMIT
RolledBack(w, c) == c

----------------------------------------------------------------------------
(* transaction.rs: the identity map and the unit of work                   *)

Key(schema, id) == [schema |-> schema, id |-> id]

Put(f, k, v) == [x \in DOMAIN f \cup {k} |-> IF x = k THEN v ELSE f[x]]

\* a backend call as the log records it
Call(op, table, id) == [op |-> op, table |-> table, id |-> id]

\* what an operation returned: outcome is "ok", "err" (an Err value) or "panic"
Res(op, outcome, err, schema, id, cell, val) ==
    [op |-> op, outcome |-> outcome, err |-> err, schema |-> schema, id |-> id,
     cell |-> cell, val |-> val]

NoRef == [schema |-> NoSchema, id |-> 0, gen |-> 0]

NoResult == Res("new", "ok", NoErr, NoSchema, 0, NoRef, <<>>)

\* one backend call of an operation may be made to fail: the at-th one; or the
\* backend is busy for as long as the operation runs (at < 0) and fails every
\* call the operation makes
FaultPlans(n) ==
    {[at |-> 0, kind |-> "none"], [at |-> -1, kind |-> "busy"]}
      \cup {[at |-> i, kind |-> k] : i \in 1..n, k \in Faults \ {"none"}}

FaultAt(plan, n) == IF plan.at = n \/ plan.at < 0 THEN plan.kind ELSE "none"

\* an entry that starts Modified
NewCell_modified(rec) == [obj |-> rec, state |-> "Modified", borrow |-> 0]

\* TxState as create and get build it: the record in a fresh slot, state Clean.
\* borrow is the RefCell flag of the record slot: 0 unborrowed, n > 0 shared
\* borrows, -1 a mutable one
NewCell(rec) == [obj |-> rec, state |-> "Clean", borrow |-> 0]

\* Rc::new: a reference no earlier allocation has. An allocation is named by the
\* key it was made for and its rank among the allocations made for that key
NewRef(T, id) ==
    [schema |-> T, id |-> id,
     gen |-> 1 + Cardinality({r \in DOMAIN heap : r.schema = T /\ r.id = id})]

\* guards (Ref, RefMut) outstanding over the record slots
RECURSIVE GuardsOf(_)
GuardsOf(S) ==
    IF S = {} THEN 0
    ELSE LET r == CHOOSE x \in S : TRUE
         IN  (IF heap[r].borrow < 0 THEN 1 ELSE heap[r].borrow) + GuardsOf(S \ {r})

TotalGuards == GuardsOf(DOMAIN heap)

\* Transaction::ensure_table; the calls it made are returned with its result
ensure_table(w, T, plan) ==
    LET ex == table_exists(w, T.table_name, FaultAt(plan, 1))
        c1 == Call("table_exists", T.table_name, 0)
        c2 == Call("create_table", T.table_name, 0)
        cr == create_table(w, T, FaultAt(plan, 2))
    IN  IF ex.val
        THEN [st |-> "ok", err |-> NoErr, w |-> w, calls |-> <<c1>>]
        ELSE [st |-> cr.st, err |-> cr.err, w |-> cr.w, calls |-> <<c1, c2>>]

\* an operation of the open transaction that returns Err or panics after the calls cs
Returned(op, r, cs, T, id) ==
    /\ working' = r.w
    /\ status' = IF r.st = "panic" THEN "panicked" ELSE status
    /\ result' = Res(op, r.st, r.err, T, id, NoRef, <<>>)
    /\ calls' = cs
    /\ UNCHANGED <<committed, txCount, heap, objects, handles, deleted>>

Panic == [st |-> "panic", err |-> NoErr, w |-> working, val |-> 0]

\* Transaction::create
Create(T, rec, plan) ==
    /\ status = "open"
    /\ RowsIn(working, TableNames) < MaxRows
    /\ LET en == ensure_table(working, T, plan)
           ins == insert_row(en.w, T, to_row(T, rec), FaultAt(plan, 3))
           cs == en.calls \o <<Call("insert_row", T.table_name, 0)>>
           c == NewRef(T, ins.val)
       IN  IF en.st # "ok" THEN Returned("create", en, en.calls, T, 0)
           ELSE IF ins.st # "ok" THEN Returned("create", ins, cs, T, 0)
           ELSE /\ working' = ins.w
                /\ heap' = Put(heap, c, NewCell(rec))
                /\ objects' = Put(objects, Key(T, ins.val), c)
                /\ handles' = handles \cup {[ty |-> T, cell |-> c]}
                /\ result' = Res("create", "ok", NoErr, T, ins.val, c, rec)
                /\ calls' = cs
                /\ UNCHANGED <<committed, status, txCount, deleted>>

\* a lookup that never finds the key: every get would read the backend
IsTracked_never(k) == FALSE

\* Entry::Occupied or Entry::Vacant for the key in the identity map
IsTracked(k) == k \in DOMAIN objects

\* a get whose type check does not borrow the record slot
Get_noborrow(T, id, plan) ==
    /\ status = "open"
    /\ LET en == ensure_table(working, T, plan)
           k == Key(T, id)
           sel == select_row(en.w, id, T, FaultAt(plan, 3))
           cs == en.calls \o <<Call("select_row", T.table_name, id)>>
           c == NewRef(T, id)
       IN  IF en.st # "ok" THEN Returned("get", en, en.calls, T, id)
           ELSE IF ~IsTracked(k)
           THEN IF sel.st # "ok" THEN Returned("get", sel, cs, T, id)
                ELSE IF ~from_row_ok(T, sel.val)
                     THEN Returned("get", [Panic EXCEPT !.w = en.w], cs, T, id)
                ELSE /\ working' = en.w
                     /\ heap' = Put(heap, c, NewCell(from_row(T, sel.val)))
                     /\ objects' = Put(objects, k, c)
                     /\ handles' = handles \cup {[ty |-> T, cell |-> c]}
                     /\ result' = Res("get", "ok", NoErr, T, id, c, from_row(T, sel.val))
                     /\ calls' = cs
                     /\ UNCHANGED <<committed, status, txCount, deleted>>
           ELSE LET e == objects[k]
                IN  IF heap[e].state = "Removed"
                    THEN Returned("get", [st |-> "err", err |-> NotFoundError(id, T.type_name),
                                          w |-> en.w, val |-> 0], en.calls, T, id)
                    ELSE IF e.schema # T
                         THEN Returned("get", [Panic EXCEPT !.w = en.w], en.calls, T, id)
                    ELSE /\ working' = en.w
                         /\ handles' = handles \cup {[ty |-> T, cell |-> e]}
                         /\ result' = Res("get", "ok", NoErr, T, id, e, heap[e].obj)
                         /\ calls' = en.calls
                         /\ UNCHANGED <<committed, status, txCount, heap, objects, deleted>>

\* Transaction::get
Get(T, id, plan) ==
    /\ status = "open"
    /\ LET en == ensure_table(working, T, plan)
           k == Key(T, id)
           sel == select_row(en.w, id, T, FaultAt(plan, 3))
           cs == en.calls \o <<Call("select_row", T.table_name, id)>>
           c == NewRef(T, id)
       IN  IF en.st # "ok" THEN Returned("get", en, en.calls, T, id)
           ELSE IF ~IsTracked(k)
           THEN IF sel.st # "ok" THEN Returned("get", sel, cs, T, id)
                ELSE IF ~from_row_ok(T, sel.val)
                     THEN Returned("get", [Panic EXCEPT !.w = en.w], cs, T, id)
                ELSE /\ working' = en.w
                     /\ heap' = Put(heap, c, NewCell(from_row(T, sel.val)))
                     /\ objects' = Put(objects, k, c)
                     /\ handles' = handles \cup {[ty |-> T, cell |-> c]}
                     /\ result' = Res("get", "ok", NoErr, T, id, c, from_row(T, sel.val))
                     /\ calls' = cs
                     /\ UNCHANGED <<committed, status, txCount, deleted>>
           ELSE LET e == objects[k]
                IN  IF heap[e].state = "Removed"
                    THEN Returned("get", [st |-> "err", err |-> NotFoundError(id, T.type_name),
                                          w |-> en.w, val |-> 0], en.calls, T, id)
                    ELSE IF heap[e].borrow < 0 \/ e.schema # T
                         THEN Returned("get", [Panic EXCEPT !.w = en.w], en.calls, T, id)
                    ELSE /\ working' = en.w
                         /\ handles' = handles \cup {[ty |-> T, cell |-> e]}
                         /\ result' = Res("get", "ok", NoErr, T, id, e, heap[e].obj)
                         /\ calls' = en.calls
                         /\ UNCHANGED <<committed, status, txCount, heap, objects, deleted>>

\* a handle operation leaves everything but the cells, the result and the log
HandleFrame == UNCHANGED <<committed, working, txCount, objects, handles>>

\* Tx::borrow
Tx_borrow(h) ==
    /\ status = "open"
    /\ h \in handles
    /\ LET c == h.cell
           fails == heap[c].state = "Removed" \/ heap[c].borrow < 0
       IN  /\ fails \/ TotalGuards < MaxGuards
           /\ heap' = IF fails THEN heap ELSE [heap EXCEPT ![c].borrow = @ + 1]
           /\ status' = IF fails THEN "panicked" ELSE status
           /\ result' = Res("borrow", IF fails THEN "panic" ELSE "ok", NoErr, h.ty,
                            c.id, c, IF fails THEN <<>> ELSE heap[c].obj)
    /\ calls' = <<>>
    /\ UNCHANGED deleted
    /\ HandleFrame

\* a borrow_mut that is granted whatever the borrow flag of the record slot
Tx_borrow_mut_unchecked(h) ==
    /\ status = "open"
    /\ h \in handles
    /\ heap' = [heap EXCEPT ![h.cell].state = "Modified", ![h.cell].borrow = -1]
    /\ result' = Res("borrow_mut", "ok", NoErr, h.ty, h.cell.id, h.cell, <<>>)
    /\ calls' = <<>>
    /\ UNCHANGED <<committed, working, status, txCount, objects, handles, deleted>>

\* Tx::borrow_mut: the state is set before the slot is borrowed
Tx_borrow_mut(h) ==
    /\ status = "open"
    /\ h \in handles
    /\ LET c == h.cell
           fails == heap[c].borrow # 0
       IN  /\ fails \/ TotalGuards < MaxGuards
           /\ heap' = [heap EXCEPT ![c].state = "Modified",
                                   ![c].borrow = IF fails THEN @ ELSE -1]
           /\ status' = IF fails THEN "panicked" ELSE status
           /\ result' = Res("borrow_mut", IF fails THEN "panic" ELSE "ok", NoErr, h.ty,
                            c.id, c, <<>>)
    /\ calls' = <<>>
    /\ UNCHANGED deleted
    /\ HandleFrame

\* a delete that does not look at the borrow flag of the record slot
Tx_delete_unchecked(h) ==
    /\ status = "open"
    /\ h \in handles
    /\ heap' = [heap EXCEPT ![h.cell].state = "Removed"]
    /\ deleted' = deleted \cup {h.cell}
    /\ result' = Res("delete", "ok", NoErr, h.ty, h.cell.id, h.cell, <<>>)
    /\ calls' = <<>>
    /\ UNCHANGED <<committed, working, status, txCount, objects, handles>>

\* a delete that writes through to the backend at once
Tx_delete_eager(h) ==
    /\ status = "open"
    /\ h \in handles
    /\ LET c == h.cell
           fails == heap[c].borrow # 0
           r == delete_row(working, c.id, c.schema, "none")
       IN  /\ heap' = IF fails THEN heap ELSE [heap EXCEPT ![c].state = "Removed"]
           /\ deleted' = IF fails THEN deleted ELSE deleted \cup {c}
           /\ status' = IF fails THEN "panicked" ELSE status
           /\ working' = IF fails THEN working ELSE r.w
           /\ calls' = IF fails THEN <<>> ELSE <<Call("delete_row", c.schema.table_name, c.id)>>
           /\ result' = Res("delete", IF fails THEN "panic" ELSE "ok", NoErr, h.ty,
                            c.id, c, <<>>)
    /\ UNCHANGED <<committed, txCount, objects, handles>>

\* Tx::delete; it consumes the handle, of which the caller may hold clones
Tx_delete(h) ==
    /\ status = "open"
    /\ h \in handles
    /\ LET c == h.cell
           fails == heap[c].borrow # 0
       IN  /\ heap' = IF fails THEN heap ELSE [heap EXCEPT ![c].state = "Removed"]
           /\ deleted' = IF fails THEN deleted ELSE deleted \cup {c}
           /\ status' = IF fails THEN "panicked" ELSE status
           /\ result' = Res("delete", IF fails THEN "panic" ELSE "ok", NoErr, h.ty,
                            c.id, c, <<>>)
    /\ calls' = <<>>
    /\ HandleFrame

\* the caller drops a Ref it holds
DropRef(c) ==
    /\ status = "open"
    /\ c \in DOMAIN heap
    /\ heap[c].borrow > 0
    /\ heap' = [heap EXCEPT ![c].borrow = @ - 1]
    /\ result' = Res("drop_ref", "ok", NoErr, c.schema, c.id, c, <<>>)
    /\ calls' = <<>>
    /\ UNCHANGED <<status, deleted>>
    /\ HandleFrame

\* the caller drops a RefMut it holds
DropRefMut(c) ==
    /\ status = "open"
    /\ c \in DOMAIN heap
    /\ heap[c].borrow < 0
    /\ heap' = [heap EXCEPT ![c].borrow = 0]
    /\ result' = Res("drop_ref_mut", "ok", NoErr, c.schema, c.id, c, <<>>)
    /\ calls' = <<>>
    /\ UNCHANGED <<status, deleted>>
    /\ HandleFrame

\* the caller assigns the record through a RefMut it holds
WriteRefMut(c, rec) ==
    /\ status = "open"
    /\ c \in DOMAIN heap
    /\ heap[c].borrow < 0
    /\ rec \in Records(c.schema)
    /\ rec # heap[c].obj
    /\ heap' = [heap EXCEPT ![c].obj = rec]
    /\ result' = Res("write", "ok", NoErr, c.schema, c.id, c, rec)
    /\ calls' = <<>>
    /\ UNCHANGED <<status, deleted>>
    /\ HandleFrame

\* a flush that also writes the entries that are Clean
FlushOp_all(state) == IF state = "Removed" THEN "delete_row" ELSE "update_row"

\* the arm of the match in try_apply an entry of that state takes
FlushOp(state) ==
    CASE state = "Modified" -> "update_row"
      [] state = "Removed" -> "delete_row"
      [] OTHER -> "none"

\* the entries try_apply issues a backend call for; the others take the empty arm,
\* so their place in the iteration has no effect
DirtyKeys == {k \in DOMAIN objects : FlushOp(heap[objects[k]].state) # "none"}

\* HashMap::iter visits the entries in an arbitrary order
RECURSIVE PermsOf(_)
PermsOf(S) ==
    IF S = {} THEN {<<>>}
    ELSE UNION {{<<x>> \o p : p \in PermsOf(S \ {x})} : x \in S}

\* Transaction::try_apply from the n-th entry of the iteration on
RECURSIVE try_apply(_, _, _, _)
try_apply(w, order, n, plan) ==
    IF n > Len(order) THEN [st |-> "ok", err |-> NoErr, w |-> w, calls |-> <<>>]
    ELSE LET k == order[n]
             cell == heap[objects[k]]
             op == FlushOp(cell.state)
             call == Call(op, k.schema.table_name, k.id)
             r == IF op = "update_row"
                  THEN update_row(w, k.id, k.schema, to_row(objects[k].schema, cell.obj), FaultAt(plan, n))
                  ELSE delete_row(w, k.id, k.schema, FaultAt(plan, n))
         IN  IF op = "update_row" /\ cell.borrow < 0
             THEN [st |-> "panic", err |-> NoErr, w |-> w, calls |-> <<>>]
             ELSE IF r.st # "ok"
             THEN [st |-> r.st, err |-> r.err, w |-> r.w, calls |-> <<call>>]
             ELSE LET rest == try_apply(r.w, order, n + 1, plan)
                  IN  [rest EXCEPT !.calls = <<call>> \o @]

\* the transaction is consumed by commit and rollback: the handles and the
\* guards borrowed from them are gone (dropped or forgotten) before the call,
\* and dropping the backend transaction without a COMMIT rolls it back
Consumed(st, okStatus) ==
    /\ status' = CASE st = "ok" -> okStatus [] st = "err" -> "failed" [] OTHER -> "panicked"
    /\ handles' = {}
    /\ UNCHANGED <<txCount, deleted>>

\* a commit that issues the backend commit whatever the flush returned
Commit_always(order, plan) ==
    /\ status = "open"
    /\ order \in PermsOf(DirtyKeys)
    /\ plan \in FaultPlans(Len(order) + 1)
    /\ LET ap == try_apply(working, order, 1, plan)
           cm == end_statement(ap.w, FaultAt(plan, Len(order) + 1))
       IN  /\ calls' = ap.calls \o <<Call("commit", "", 0)>>
           /\ result' = Res("commit", cm.st, cm.err, NoSchema, 0, NoRef, <<>>)
           /\ committed' = IF cm.st = "ok" THEN ap.w ELSE RolledBack(ap.w, committed)
           /\ working' = committed'
           /\ Consumed(cm.st, "committed")
    /\ UNCHANGED <<heap, objects>>

\* Transaction::commit
Commit(order, plan) ==
    /\ status = "open"
    /\ order \in PermsOf(DirtyKeys)
    /\ plan \in FaultPlans(Len(order) + 1)
    /\ LET ap == try_apply(working, order, 1, plan)
           cm == end_statement(ap.w, FaultAt(plan, Len(order) + 1))
           st == IF ap.st # "ok" THEN ap.st ELSE cm.st
       IN  /\ calls' = IF ap.st # "ok" THEN ap.calls
                       ELSE ap.calls \o <<Call("commit", "", 0)>>
           /\ result' = Res("commit", st, IF ap.st # "ok" THEN ap.err ELSE cm.err,
                            NoSchema, 0, NoRef, <<>>)
           /\ committed' = IF st = "ok" THEN ap.w ELSE RolledBack(ap.w, committed)
           /\ working' = committed'
           /\ Consumed(st, "committed")
    /\ UNCHANGED <<heap, objects>>

\* Transaction::rollback; no state cell is borrowed between operations, so the
\* try_borrow_mut of each entry's state succeeds
Rollback(f) ==
    /\ status = "open"
    /\ LET rb == end_statement(working, f)
       IN  /\ heap' = [c \in DOMAIN heap |->
                         IF \E k \in DOMAIN objects : objects[k] = c
                         THEN [heap[c] EXCEPT !.state = "Clean"]
                         ELSE heap[c]]
           /\ objects' = <<>>
           /\ calls' = <<Call("rollback", "", 0)>>
           /\ result' = Res("rollback", rb.st, rb.err, NoSchema, 0, NoRef, <<>>)
           /\ committed' = RolledBack(working, committed)
           /\ working' = committed'
           /\ Consumed(rb.st, "rolledback")

\* Transaction::new over a fresh backend transaction
BeginTx ==
    /\ status \in {"committed", "rolledback", "failed"}
    /\ txCount < MaxTx
    /\ status' = "open"
    /\ txCount' = txCount + 1
    /\ working' = committed
    /\ heap' = <<>>
    /\ objects' = <<>>
    /\ handles' = {}
    /\ calls' = <<>>
    /\ result' = NoResult
    /\ deleted' = {}
    /\ UNCHANGED committed

Init ==
    /\ committed = NoTables
    /\ working = NoTables
    /\ status = "open"
    /\ txCount = 1
    /\ heap = <<>>
    /\ objects = <<>>
    /\ handles = {}
    /\ calls = <<>>
    /\ result = NoResult
    /\ deleted = {}

Next ==
    \/ \E T \in Schemas : \E rec \in Records(T) : \E plan \in FaultPlans(3) : Create(T, rec, plan)
    \/ \E T \in Schemas : \E id \in Ids : \E plan \in FaultPlans(3) : Get(T, id, plan)
    \/ \E h \in handles : Tx_borrow(h)
    \/ \E h \in handles : Tx_borrow_mut(h)
    \/ \E h \in handles : Tx_delete(h)
    \/ \E c \in DOMAIN heap : DropRef(c)
    \/ \E c \in DOMAIN heap : DropRefMut(c)
    \/ \E c \in DOMAIN heap : \E rec \in Records(c.schema) : WriteRefMut(c, rec)
    \/ \E order \in PermsOf(DirtyKeys) : \E plan \in FaultPlans(Len(order) + 1) : Commit(order, plan)
    \/ \E f \in Faults : Rollback(f)
    \/ BeginTx

Spec == Init /\ [][Next]_vars

----------------------------------------------------------------------------
(* The row execution layer driven directly                                 *)

\* a backend operation applied to the open backend transaction
RowStep(op, r, T, id, val) ==
    /\ status = "row"
    /\ working' = r.w
    /\ status' = IF r.st = "panic" THEN "panicked" ELSE status
    /\ result' = Res(op, r.st, r.err, T, id, NoRef, val)
    /\ calls' = <<Call(op, T.table_name, id)>>
    /\ UNCHANGED <<committed, txCount, heap, objects, handles, deleted>>

RowTableExists(T, f) ==
    LET r == table_exists(working, T.table_name, f)
    IN  RowStep("table_exists", r, T, 0, <<r.val>>)

RowCreateTable(T, f) == RowStep("create_table", create_table(working, T, f), T, 0, <<>>)

RowInsert(T, rec, f) ==
    /\ RowsIn(working, TableNames) < MaxRows
    /\ LET r == insert_row(working, T, to_row(T, rec), f)
       IN  RowStep("insert_row", r, T, IF r.st = "ok" THEN r.val ELSE 0, <<>>)

RowUpdate(id, T, rec, f) ==
    RowStep("update_row", update_row(working, id, T, to_row(T, rec), f), T, id, <<>>)

RowSelect(id, T, f) ==
    LET r == select_row(working, id, T, f)
    IN  RowStep("select_row", r, T, id, IF r.st = "ok" THEN r.val ELSE <<>>)

RowDelete(id, T, f) == RowStep("delete_row", delete_row(working, id, T, f), T, id, <<>>)

InitRow ==
    /\ committed = NoTables
    /\ working = NoTables
    /\ status = "row"
    /\ txCount = 1
    /\ heap = <<>>
    /\ objects = <<>>
    /\ handles = {}
    /\ calls = <<>>
    /\ result = NoResult
    /\ deleted = {}

NextRow ==
    \/ \E T \in RowSchemas : \E f \in Faults : RowTableExists(T, f)
    \/ \E T \in RowSchemas : \E f \in Faults : RowCreateTable(T, f)
    \/ \E T \in RowSchemas : \E rec \in Records(T) : \E f \in Faults : RowInsert(T, rec, f)
    \/ \E id \in Ids : \E T \in RowSchemas : \E rec \in Records(T) : \E f \in Faults :
          RowUpdate(id, T, rec, f)
    \/ \E id \in Ids : \E T \in RowSchemas : \E f \in Faults : RowSelect(id, T, f)
    \/ \E id \in Ids : \E T \in RowSchemas : \E f \in Faults : RowDelete(id, T, f)

SpecRow == InitRow /\ [][NextRow]_vars

----------------------------------------------------------------------------
(* Properties                                                              *)

CallOps == {calls[i].op : i \in 1..Len(calls)}

CountCalls(op, k) ==
    Cardinality({i \in 1..Len(calls) : calls[i] = Call(op, k.schema.table_name, k.id)})

\* the stored row r reads back as the row of Values row, column by column
ReadsBackAs(schema, r, row) ==
    \A i \in 1..Len(schema.columns) :
        LET sv == r[schema.columns[i].name]
        IN  /\ FromSqlOk(sv)
            /\ FromSql(sv).tag = row[i].tag
            /\ FromSql(sv).v = row[i].v

\* C1: within a transaction every handle returned by create or get refers to
\* the entry the identity map holds for its (descriptor, identity), no identity
\* has two in-memory copies, and so all handles of an identity read the same record.
C1_IdentityMapUnique ==
    status = "open" =>
        /\ \A h \in handles :
             /\ Key(h.ty, h.cell.id) \in DOMAIN objects
             /\ objects[Key(h.ty, h.cell.id)] = h.cell
        /\ \A r1 \in DOMAIN heap : \A r2 \in DOMAIN heap :
             (r1.schema = r2.schema /\ r1.id = r2.id) => r1 = r2
        /\ \A h1 \in handles : \A h2 \in handles :
             (h1.ty = h2.ty /\ h1.cell.id = h2.cell.id)
                => heap[h1.cell].obj = heap[h2.cell].obj

\* a second get of an identity returned the entry that was written through
\* borrow_mut, with the written record and not the backend's
C1_Witness ==
    /\ status = "open"
    /\ result.op = "get"
    /\ result.outcome = "ok"
    /\ "select_row" \notin CallOps
    /\ heap[result.cell].state = "Modified"
    /\ result.val = heap[result.cell].obj
    /\ result.val = <<"7">>
    /\ working[result.schema.table_name].rows[result.id]["name"].cls = "Text"

LifecycleStep(s, t) ==
    \/ s = t
    \/ s = "Clean" /\ t = "Modified"
    \/ s \in {"Clean", "Modified"} /\ t = "Removed"

\* C2: while the transaction is open, the state of an entry only changes
\* Clean -> Modified or {Clean, Modified} -> Removed, and Removed is terminal.
C2_LifecycleMonotone ==
    [][(status = "open" /\ status' \in {"open", "panicked"})
         => \A r \in DOMAIN heap : LifecycleStep(heap[r].state, heap'[r].state)]_vars

\* C3: once delete() has completed on an entry, every later get of its identity
\* whose ensure_table succeeds returns NotFound with the identity and the type
\* name without a select_row, and every later borrow on it panics.
C3_RemovedStaysRemoved ==
    [][(status = "open")
         => /\ (/\ result'.op = "get"
                /\ "create_table" \notin {calls'[i].op : i \in 1..Len(calls')}
                /\ Key(result'.schema, result'.id) \in DOMAIN objects
                /\ objects[Key(result'.schema, result'.id)] \in deleted)
               => /\ result'.outcome = "err"
                  /\ result'.err = NotFoundError(result'.id, result'.schema.type_name)
                  /\ "select_row" \notin {calls'[i].op : i \in 1..Len(calls')}
            /\ (result'.op = "borrow" /\ result'.cell \in deleted)
               => result'.outcome = "panic"]_vars

\* C4: after a successful commit the log holds exactly one update_row for each
\* Modified entry, exactly one delete_row for each Removed entry, none for a
\* Clean entry or an untracked identity, and the backend commit last.
C4_DirtyFlushPrecision ==
    status = "committed" =>
        /\ \A k \in DOMAIN objects :
             LET st == heap[objects[k]].state
             IN  /\ CountCalls("update_row", k) = (IF st = "Modified" THEN 1 ELSE 0)
                 /\ CountCalls("delete_row", k) = (IF st = "Removed" THEN 1 ELSE 0)
        /\ \A i \in 1..Len(calls) :
             calls[i].op \in {"update_row", "delete_row"}
                => \E k \in DOMAIN objects :
                     k.schema.table_name = calls[i].table /\ k.id = calls[i].id
        /\ Len(calls) >= 1
        /\ \A i \in 1..Len(calls) : (calls[i].op = "commit") <=> (i = Len(calls))

\* a commit succeeded over a Modified entry and a Clean one
C4_Witness ==
    /\ status = "committed"
    /\ \E k1 \in DOMAIN objects : heap[objects[k1]].state = "Modified"
    /\ \E k2 \in DOMAIN objects : heap[objects[k2]].state = "Clean"

\* C5: update_row and delete_row appear only in the log of a commit, and the
\* handle operations issue no backend call.
C5_BufferedUntilCommit ==
    /\ (CallOps \cap {"update_row", "delete_row"} # {}) => result.op = "commit"
    /\ result.op \in {"borrow", "borrow_mut", "delete", "drop_ref", "drop_ref_mut", "write"}
          => calls = <<>>

\* delete() completed on an entry and its row is still in the backend
C5_Witness ==
    /\ status = "open"
    /\ result.op = "delete"
    /\ result.outcome = "ok"
    /\ result.id \in DOMAIN working[result.schema.table_name].rows

\* the step is a get of an identity that is tracked and not Removed
TrackedGet ==
    /\ status = "open"
    /\ result'.op = "get"
    /\ Key(result'.schema, result'.id) \in DOMAIN objects
    /\ heap[objects[Key(result'.schema, result'.id)]].state # "Removed"

C7_CommitPersistsLatest ==
    status = "committed" =>
        \A k \in DOMAIN objects :
            LET cell == heap[objects[k]]
                tab == committed[k.schema.table_name]
                sel == select_row(committed, k.id, k.schema, "none")
            IN  /\ cell.state = "Modified"
                   => /\ k.id \in DOMAIN tab.rows
                      /\ ReadsBackAs(k.schema, tab.rows[k.id], to_row(k.schema, cell.obj))
                      /\ sel.st = "ok"
                      /\ from_row(k.schema, sel.val) = cell.obj
                /\ cell.state = "Removed" => k.id \notin DOMAIN tab.rows

\* C8: a rollback leaves the backend with the tables it held when the
\* transaction was opened, which is what a later transaction sees, and
\* empties the identity map.
C8_RollbackDiscards ==
    [][(status = "open" /\ result'.op = "rollback")
         => /\ committed' = committed
            /\ working' = committed
            /\ objects' = <<>>]_vars

\* a transaction that created a row, edited or deleted entries was rolled back
C8_Witness ==
    /\ status = "rolledback"
    /\ deleted # {}
    /\ \E r \in DOMAIN heap : heap[r].obj = <<"7">>
    /\ \A t \in TableNames : committed[t].rows = <<>>

\* C9: a rollback over an entry whose record slot is mutably borrowed panics.
C9_RollbackBorrowedPanics ==
    [][(/\ status = "open"
        /\ result'.op = "rollback"
        /\ \E k \in DOMAIN objects : heap[objects[k]].borrow < 0)
         => status' = "panicked"]_vars

\* C10: update_row on an identity no row of the existing table has does not
\* succeed, and the error it returns is NotFound (or the backend's own failure).
C10_UpdateAbsentNotFound ==
    (/\ result.op = "update_row"
     /\ working[result.schema.table_name].exists
     /\ result.id \notin DOMAIN working[result.schema.table_name].rows)
      => /\ result.outcome # "ok"
         /\ result.outcome = "err" => result.err.kind \in {"NotFound", "LockConflict"}

\* the step is the backend operation with the failure f injected
FaultedRowStep(f) ==
    \/ \E T \in RowSchemas : RowTableExists(T, f)
    \/ \E T \in RowSchemas : RowCreateTable(T, f)
    \/ \E T \in RowSchemas : \E rec \in Records(T) : RowInsert(T, rec, f)
    \/ \E id \in Ids : \E T \in RowSchemas : \E rec \in Records(T) : RowUpdate(id, T, rec, f)
    \/ \E id \in Ids : \E T \in RowSchemas : RowSelect(id, T, f)
    \/ \E id \in Ids : \E T \in RowSchemas : RowDelete(id, T, f)

\* C11: a backend operation whose statement fails returns an error of the
\* taxonomy: LockConflict for a busy backend, Storage for any other failure;
\* it neither succeeds nor terminates abnormally, and no error is outside
\* {NotFound, UnexpectedType, MissingColumn, LockConflict, Storage}.
C11_FailuresClassified ==
    [][/\ FaultedRowStep("busy")
          => result'.outcome = "err" /\ result'.err.kind = "LockConflict"
       /\ FaultedRowStep("other")
          => result'.outcome = "err" /\ result'.err.kind = "Storage"
       /\ result'.outcome = "err"
          => result'.err.kind \in {"NotFound", "UnexpectedType", "MissingColumn",
                                   "LockConflict", "Storage"}]_vars

----------------------------------------------------------------------------
(* Two record types declared over one table                                *)

AliasSchemas == {SchemaA, SchemaA1}

NoFault == [at |-> 0, kind |-> "none"]

\* rows the table of the two record types receives
AliasRows == 1

NextAlias ==
    \/ \E T \in AliasSchemas : \E rec \in Records(T) :
          RowsIn(working, TableNames) < AliasRows /\ Create(T, rec, NoFault)
    \/ \E T \in AliasSchemas : \E id \in 1..AliasRows : Get(T, id, NoFault)
    \/ \E h \in handles : Tx_borrow(h)
    \/ \E h \in handles : Tx_borrow_mut(h)
    \/ \E h \in handles : Tx_delete(h)
    \/ \E c \in DOMAIN heap : DropRef(c)
    \/ \E c \in DOMAIN heap : DropRefMut(c)
    \/ \E c \in DOMAIN heap : \E rec \in Records(c.schema) : WriteRefMut(c, rec)
    \/ \E order \in PermsOf(DirtyKeys) : Commit(order, NoFault)
    \/ Rollback("none")

SpecAlias == Init /\ [][NextAlias]_vars

\* C12: the identity map has one key per (table name, identity): a get through
\* a descriptor of an identity already tracked through another descriptor of
\* the same table finds the existing entry and makes no second one.
C12_KeysByTableName ==
    status = "open"
      => /\ \A k1 \in DOMAIN objects : \A k2 \in DOMAIN objects :
              (k1.schema.table_name = k2.schema.table_name /\ k1.id = k2.id) => k1 = k2
         /\ \A r1 \in DOMAIN heap : \A r2 \in DOMAIN heap :
              (/\ r1.schema.table_name = r2.schema.table_name
               /\ r1.id = r2.id
               /\ \E k1 \in DOMAIN objects : objects[k1] = r1
               /\ \E k2 \in DOMAIN objects : objects[k2] = r2) => r1 = r2

----------------------------------------------------------------------------
(* convert_by_schema applied to the rows a SELECT can return               *)

DataTypes == {"String", "Bytes", "Int64", "Float64", "Bool"}

\* #[derive(Object)] struct C { f1: t1, f2: t2 } with the columns renamed c1, c2
ConvSchema(t1, t2) ==
    [table_name |-> "C", type_name |-> "C",
     columns |-> <<[name |-> "c1", ty |-> t1], [name |-> "c2", ty |-> t2]>>,
     attrs |-> <<"f1", "f2">>]

\* a row of two columns was read for a descriptor of two columns
InitConv ==
    /\ committed = NoTables
    /\ working = NoTables
    /\ status = "conv"
    /\ txCount = 1
    /\ heap = <<>>
    /\ objects = <<>>
    /\ handles = {}
    /\ calls = <<>>
    /\ deleted = {}
    /\ \E t1 \in DataTypes : \E t2 \in DataTypes :
       \E g1 \in DataTypes : \E g2 \in DataTypes :
       \E x1 \in NativeValues(g1) : \E x2 \in NativeValues(g2) :
          result = Res("read", "ok", NoErr, ConvSchema(t1, t2), 0, NoRef,
                       <<to_value(g1, x1), to_value(g2, x2)>>)

\* select_row hands the row it read to convert_by_schema; the result is kept
\* with the row that was read: val is <<row read, row returned>>
ConvertBySchema ==
    /\ status = "conv"
    /\ result.op = "read"
    /\ LET r == convert_by_schema(working, result.val, result.schema)
       IN  result' = Res("convert_by_schema", r.st, r.err, result.schema, 0, NoRef,
                         <<result.val, IF r.st = "ok" THEN r.val ELSE <<>> >>)
    /\ calls' = <<>>
    /\ UNCHANGED <<committed, working, status, txCount, heap, objects, handles, deleted>>

NextConv == ConvertBySchema

SpecConv == InitConv /\ [][NextConv]_vars

\* the reference rule, column by column from column i on; acc holds the
\* values of the columns before i
RECURSIVE ReconcileRef(_, _, _, _)
ReconcileRef(schema, val, i, acc) ==
    IF i > Len(schema.columns) THEN [ok |-> TRUE, val |-> acc, col |-> 0]
    ELSE LET ty == schema.columns[i].ty
             v == val[i]
         IN  IF v.tag = ty THEN ReconcileRef(schema, val, i + 1, Append(acc, v))
             ELSE IF ty = "Bool" /\ v.tag = "Int64" /\ v.v = 0
             THEN ReconcileRef(schema, val, i + 1, Append(acc, [tag |-> "Bool", v |-> FALSE]))
             ELSE IF ty = "Bool" /\ v.tag = "Int64" /\ v.v = 1
             THEN ReconcileRef(schema, val, i + 1, Append(acc, [tag |-> "Bool", v |-> TRUE]))
             ELSE [ok |-> FALSE, val |-> <<>>, col |-> i]

\* the backend's name of the type of a value that was read
ActualType(v) ==
    CASE v.tag = "String" -> "Text"
      [] v.tag = "Bytes" -> "Blob"
      [] v.tag = "Int64" -> "Integer"
      [] v.tag = "Float64" -> "Real"
      [] v.tag = "Bool" -> "Integer"

\* C13: convert_by_schema returns what the reference rule gives: the row with
\* each value kept when its tag is the declared type and Int64 0 / 1 turned
\* into Bool false / true under a declared Bool, one value of the declared type
\* per column; otherwise UnexpectedType for the first offending column with its
\* attribute, the table, the type name, the expected and the actual type.
C13_ReconcileMatchesReference ==
    result.op = "convert_by_schema"
      => LET s == result.schema
             read == result.val[1]
             out == result.val[2]
             ref == ReconcileRef(s, read, 1, <<>>)
         IN  /\ (result.outcome = "ok") = ref.ok
             /\ result.outcome \in {"ok", "err"}
             /\ ref.ok
                => /\ Len(out) = Len(s.columns)
                   /\ \A i \in 1..Len(s.columns) :
                        /\ data_type(out[i]) = s.columns[i].ty
                        /\ out[i].v = ref.val[i].v
             /\ ~ref.ok
                => result.err =
                     UnexpectedTypeError(s.type_name, s.attrs[ref.col], s.table_name,
                                         s.columns[ref.col].name, s.columns[ref.col].ty,
                                         ActualType(read[ref.col]))

\* a row whose first column was an Int64 1 under a declared Bool and whose
\* second column had the declared type String was reconciled
C13_Witness ==
    /\ result.op = "convert_by_schema"
    /\ result.outcome = "ok"
    /\ result.schema = ConvSchema("Bool", "String")
    /\ result.val[1][1].tag = "Int64"
    /\ result.val[2][1] = [tag |-> "Bool", v |-> TRUE]
    /\ result.val[2][2].tag = "String"

----------------------------------------------------------------------------
(* The row layer driven with a descriptor wider than the table             *)

WideSchemas == {SchemaA, SchemaW}

NextRowW ==
    \/ \E T \in WideSchemas : RowTableExists(T, "none")
    \/ \E T \in WideSchemas : RowCreateTable(T, "none")
    \/ \E T \in WideSchemas : \E rec \in Records(T) : RowInsert(T, rec, "none")
    \/ \E id \in Ids : \E T \in WideSchemas : \E rec \in Records(T) : RowUpdate(id, T, rec, "none")
    \/ \E id \in Ids : \E T \in WideSchemas : RowSelect(id, T, "none")
    \/ \E id \in Ids : \E T \in WideSchemas : RowDelete(id, T, "none")

SpecRowW == InitRow /\ [][NextRowW]_vars

\* the columns the descriptor declares and the table of that name lacks
MissingColumns(schema, tab) ==
    {i \in 1..Len(schema.columns) :
       \A j \in 1..Len(tab.cols) : tab.cols[j].name # schema.columns[i].name}

\* C14: select_row and update_row through a descriptor that declares a column
\* the existing table lacks fail with MissingColumn carrying that column, the
\* attribute at the same position, and the descriptor's table and type names.
C14_MissingColumnNamed ==
    (/\ result.op \in {"select_row", "update_row"}
     /\ working[result.schema.table_name].exists
     /\ MissingColumns(result.schema, working[result.schema.table_name]) # {})
      => /\ result.outcome = "err"
         /\ \E i \in MissingColumns(result.schema, working[result.schema.table_name]) :
              result.err = MissingColumnError(result.schema.type_name, result.schema.attrs[i],
                                              result.schema.table_name,
                                              result.schema.columns[i].name)

\* update_row of an existing row through the wider descriptor was refused
\* with the column "extra" and its attribute "more"
C14_Witness ==
    /\ result.op = "update_row"
    /\ result.schema = SchemaW
    /\ result.id \in DOMAIN working["A"].rows
    /\ result.outcome = "err"
    /\ result.err.kind = "MissingColumn"
    /\ result.err.column_name = "extra"
    /\ result.err.attr_name = "more"

----------------------------------------------------------------------------
(* Handle operations and the borrow flag                                   *)

\* C15: delete() on a handle terminates abnormally and leaves the state of the
\* entry unchanged when the record slot is borrowed, shared or mutably, through
\* any handle of the entry; when the slot is not borrowed it sets the state to
\* Removed and returns.
C15_DeleteChecksBorrow ==
    [][(status = "open" /\ result'.op = "delete")
         => LET c == result'.cell
            IN  IF heap[c].borrow # 0
                THEN /\ result'.outcome = "panic"
                     /\ status' = "panicked"
                     /\ heap'[c].state = heap[c].state
                ELSE /\ result'.outcome = "ok"
                     /\ status' = "open"
                     /\ heap'[c].state = "Removed"]_vars

\* delete() was refused on a Modified entry whose slot is read-borrowed
C15_Witness ==
    /\ result.op = "delete"
    /\ result.outcome = "panic"
    /\ heap[result.cell].borrow > 0
    /\ heap[result.cell].state = "Modified"

\* C16: a record slot never has more than one mutable borrow nor a mutable
\* borrow together with a shared one: a borrow_mut on a slot that is borrowed
\* and a borrow on a slot that is mutably borrowed, through any handle of the
\* entry, terminate abnormally and grant nothing; a borrow_mut is granted only
\* on a slot that is not borrowed and a borrow only on a slot with no mutable
\* borrow.
C16_BorrowDiscipline ==
    [][(status = "open" /\ result'.op \in {"borrow", "borrow_mut"})
         => LET c == result'.cell
                conflict == IF result'.op = "borrow_mut"
                            THEN heap[c].borrow # 0
                            ELSE heap[c].borrow < 0
            IN  /\ conflict
                   => /\ result'.outcome = "panic"
                      /\ status' = "panicked"
                      /\ heap'[c].borrow = heap[c].borrow
                /\ result'.outcome = "ok"
                   => /\ ~conflict
                      /\ heap'[c].borrow = IF result'.op = "borrow_mut"
                                           THEN -1
                                           ELSE heap[c].borrow + 1
                /\ \A r \in DOMAIN heap' : heap'[r].borrow >= -1]_vars

\* borrow_mut was refused through a handle of an entry whose slot is
\* read-borrowed
C16_Witness ==
    /\ result.op = "borrow_mut"
    /\ result.outcome = "panic"
    /\ heap[result.cell].borrow > 0

----------------------------------------------------------------------------
(* Transactions that only create and get                                   *)

NextCreateGet ==
    \/ \E T \in Schemas : \E rec \in Records(T) : \E plan \in FaultPlans(3) : Create(T, rec, plan)
    \/ \E T \in Schemas : \E id \in Ids : \E plan \in FaultPlans(3) : Get(T, id, plan)
    \/ \E order \in PermsOf(DirtyKeys) : \E plan \in FaultPlans(Len(order) + 1) : Commit(order, plan)
    \/ BeginTx

SpecCreateGet == Init /\ [][NextCreateGet]_vars

\* C17: the entry a create inserts and the entry a get of an untracked
\* identity inserts are Clean, so transactions that only create and get hold
\* Clean entries only and their commits issue no update_row and no delete_row.
C17_EntriesStartClean ==
    /\ \A r \in DOMAIN heap : heap[r].state = "Clean"
    /\ CallOps \cap {"update_row", "delete_row"} = {}
    /\ (result.op = "commit" /\ result.outcome = "ok") => calls = <<Call("commit", "", 0)>>

\* a get read the row of an untracked identity and inserted its entry
C17_Witness ==
    /\ status = "open"
    /\ result.op = "get"
    /\ result.outcome = "ok"
    /\ "select_row" \in CallOps
    /\ objects[Key(result.schema, result.id)] = result.cell
    /\ heap[result.cell].state = "Clean"

----------------------------------------------------------------------------
(* ensure_table                                                            *)

\* the step is a create or a get whose n-th backend call fails
FaultedEngineStep(n) ==
    \E plan \in FaultPlans(3) :
       /\ plan.at = n
       /\ \/ \E T \in Schemas : \E rec \in Records(T) :
                /\ result'.op = "create"
                /\ result'.outcome = "ok" => result'.val = rec
                /\ Create(T, rec, plan)
          \/ \E T \in Schemas : \E id \in Ids : Get(T, id, plan)

\* the step is a create or a get whose existence check does not fail
CheckedEngineStep ==
    \E plan \in FaultPlans(3) :
       /\ plan.at # 1
       /\ plan.at >= 0
       /\ \/ \E T \in Schemas : \E rec \in Records(T) :
                /\ result'.op = "create"
                /\ result'.outcome = "ok" => result'.val = rec
                /\ Create(T, rec, plan)
          \/ \E T \in Schemas : \E id \in Ids : Get(T, id, plan)

RowOps == {"insert_row", "select_row"}

\* C18: a create or a get first checks that the table exists and creates it,
\* if absent, before the row operation; it issues no create_table for a table
\* the check reported present, and when the check or the creation fails it
\* returns the failure and issues no row operation.
C18_EnsureTableFirst ==
    [][(status = "open" /\ result'.op \in {"create", "get"})
         => LET ops == [i \in 1..Len(calls') |-> calls'[i].op]
                T == result'.schema
            IN  /\ Len(ops) >= 1
                /\ ops[1] = "table_exists"
                /\ calls'[1].table = T.table_name
                /\ \A i \in 2..Len(ops) :
                     \/ ops[i] = "create_table" /\ i = 2
                     \/ ops[i] \in RowOps /\ i = Len(ops)
                /\ (CheckedEngineStep /\ working[T.table_name].exists)
                     => \A i \in 1..Len(ops) : ops[i] # "create_table"
                /\ (~working[T.table_name].exists /\ \E i \in 1..Len(ops) : ops[i] \in RowOps)
                     => Len(ops) >= 2 /\ ops[2] = "create_table"
                /\ FaultedEngineStep(1)
                     => /\ result'.outcome = "err"
                        /\ \A i \in 1..Len(ops) : ops[i] \notin RowOps
                /\ (FaultedEngineStep(2) /\ Len(ops) >= 2 /\ ops[2] = "create_table")
                     => /\ result'.outcome # "ok"
                        /\ \A i \in 1..Len(ops) : ops[i] \notin RowOps]_vars

----------------------------------------------------------------------------
(* Busy backend                                                            *)

\* the calls of the step, as (operation, table, identity), are all different
NoRepeatedCall(cs) == \A i \in 1..Len(cs) : \A j \in 1..Len(cs) : cs[i] = cs[j] => i = j

\* the step is an engine operation during which the backend reported busy for
\* a call that was issued
BusyEngineStep ==
    \/ \E plan \in FaultPlans(3) :
         /\ plan.kind = "busy"
         /\ result'.op \in {"create", "get"}
         /\ \/ plan.at = 1
            \/ plan.at < 0
            \/ plan.at = 2 /\ \E i \in 1..Len(calls') : calls'[i].op = "create_table"
            \/ plan.at = 3 /\ \E i \in 1..Len(calls') : calls'[i].op \in RowOps
         /\ \/ \E T \in Schemas : \E rec \in Records(T) :
                 /\ result'.op = "create"
                 /\ result'.outcome = "ok" => result'.val = rec
                 /\ Create(T, rec, plan)
            \/ \E T \in Schemas : \E id \in Ids : Get(T, id, plan)
    \/ \E order \in PermsOf(DirtyKeys) : \E plan \in FaultPlans(Len(order) + 1) :
         /\ plan.kind = "busy"
         /\ result'.op = "commit"
         /\ Len(calls') >= (IF plan.at < 0 THEN 1 ELSE plan.at)
         /\ Commit(order, plan)
    \/ result'.op = "rollback" /\ Rollback("busy")

\* C19: an engine operation during which the backend reports busy returns
\* LockConflict, and no engine operation issues the same backend operation on
\* the same table and identity twice.
C19_NoRetry ==
    [][(status = "open" /\ result'.op \in {"create", "get", "commit", "rollback"})
         => /\ NoRepeatedCall(calls')
            /\ BusyEngineStep
                 => result'.outcome = "err" /\ result'.err = LockConflict]_vars

----------------------------------------------------------------------------
(* to_row and from_row applied to the records of a type                    *)

RoundSchemas ==
    {ConvSchema(t1, t2) : t1 \in DataTypes, t2 \in DataTypes} \cup {SchemaA, SchemaW, SchemaZ}

\* a record of one of the types
InitRound ==
    /\ committed = NoTables
    /\ working = NoTables
    /\ status = "round"
    /\ txCount = 1
    /\ heap = <<>>
    /\ objects = <<>>
    /\ handles = {}
    /\ calls = <<>>
    /\ deleted = {}
    /\ \E s \in RoundSchemas : \E rec \in Records(s) :
          result = Res("record", "ok", NoErr, s, 0, NoRef, <<rec>>)

\* Object::to_row; val becomes <<record, row>>
ToRow ==
    /\ status = "round"
    /\ result.op = "record"
    /\ result' = Res("to_row", "ok", NoErr, result.schema, 0, NoRef,
                     <<result.val[1], to_row(result.schema, result.val[1])>>)
    /\ calls' = <<>>
    /\ UNCHANGED <<committed, working, status, txCount, heap, objects, handles, deleted>>

\* Object::from_row of that row; val becomes <<record, row, record rebuilt>>
FromRow ==
    /\ status = "round"
    /\ result.op = "to_row"
    /\ LET s == result.schema
           row == result.val[2]
       IN  IF from_row_ok(s, row)
           THEN /\ result' = Res("from_row", "ok", NoErr, s, 0, NoRef,
                                 <<result.val[1], row, from_row(s, row)>>)
                /\ status' = status
           ELSE /\ result' = Res("from_row", "panic", NoErr, s, 0, NoRef,
                                 <<result.val[1], row, <<>> >>)
                /\ status' = "panicked"
    /\ calls' = <<>>
    /\ UNCHANGED <<committed, working, txCount, heap, objects, handles, deleted>>

NextRound == ToRow \/ FromRow

SpecRound == InitRound /\ [][NextRound]_vars

----------------------------------------------------------------------------
(* get of an untracked identity whose read fails                           *)

\* the step is a get that went as far as select_row and did not return a handle
FailedRead ==
    /\ status = "open"
    /\ result'.op = "get"
    /\ result'.outcome # "ok"
    /\ Len(calls') > 0
    /\ calls'[Len(calls')].op = "select_row"

\* C21 as stated: every get of an untracked identity that fails returns an error
\* value that carries the identity asked for and the record's type name, and
\* leaves the identity map and its entries unchanged.
C21_FailedGetCarriesIdentity ==
    [][FailedRead
         => /\ result'.outcome = "err"
            /\ result'.err.object_id = result'.id
            /\ result'.err.type_name = result'.schema.type_name
            /\ objects' = objects
            /\ heap' = heap]_vars

\* C21, amended: a get of an untracked identity whose select_row fails leaves the
\* identity map, its entries and the handles unchanged; an error value it
\* returns is the one select_row produced for that identity and descriptor, and
\* a NotFound carries the identity asked for and the record's type name.
C21_FailedGetRelays ==
    [][FailedRead
         => /\ ~IsTracked(Key(result'.schema, result'.id))
            /\ objects' = objects
            /\ heap' = heap
            /\ handles' = handles
            /\ result'.outcome = "err"
                 => /\ \E f \in Faults :
                         LET sel == select_row(working', result'.id, result'.schema, f)
                         IN  sel.st = "err" /\ sel.err = result'.err
                    /\ result'.err.kind = "NotFound"
                         => /\ result'.err.object_id = result'.id
                            /\ result'.err.type_name = result'.schema.type_name]_vars

\* a get of identity 2 returned NotFound while identity 1 was tracked
C21_Witness ==
    /\ result.op = "get"
    /\ result.outcome = "err"
    /\ result.err = NotFoundError(2, "A")
    /\ result.id = 2
    /\ Len(calls) > 0
    /\ calls[Len(calls)].op = "select_row"
    /\ Key(SchemaA, 1) \in DOMAIN objects
    /\ Key(SchemaA, 2) \notin DOMAIN objects

----------------------------------------------------------------------------
(* commit when a flush fails                                               *)

\* the flush call try_apply issues for a dirty key
FlushCall(k) == Call(FlushOp(heap[objects[k]].state), k.schema.table_name, k.id)

\* what the row layer answers when the flush of k fails with fault f
FlushFailure(k, f) ==
    IF FlushOp(heap[objects[k]].state) = "update_row"
    THEN update_row(working, k.id, k.schema, to_row(k.schema, heap[objects[k]].obj), f)
    ELSE delete_row(working, k.id, k.schema, f)

\* the step is a commit that visits the dirty entries in that order and whose
\* n-th flush the backend fails with fault f; the slots of the records it reads
\* up to there are not mutably borrowed (by a guard that was forgotten), so
\* each of these flushes is issued
FlushFailedStep(order, n, f) ==
    /\ result'.op = "commit"
    /\ n \in 1..Len(order)
    /\ f # "none"
    /\ \A i \in 1..n : heap[objects[order[i]]].borrow >= 0
    /\ Commit(order, [at |-> n, kind |-> f])

\* C22: when the n-th flush of a commit fails, the calls of the commit are the
\* first n flushes and nothing more (no further flush, no backend commit), the
\* commit returns the failure of that flush as the row layer produced it and
\* nothing is made durable; and in every commit the backend commit, if issued,
\* is the last call and follows one flush for each dirty entry.
C22_CommitStopsAtFailure ==
    [][/\ \A order \in PermsOf(DirtyKeys) : \A n \in 1..Len(order) : \A f \in Faults \ {"none"} :
            FlushFailedStep(order, n, f)
              => /\ calls' = [i \in 1..n |-> FlushCall(order[i])]
                 /\ result'.outcome = FlushFailure(order[n], f).st
                 /\ result'.outcome # "ok"
                 /\ result'.err = FlushFailure(order[n], f).err
                 /\ committed' = committed
                 /\ status' # "committed"
       /\ (status = "open" /\ result'.op = "commit")
            => \A i \in 1..Len(calls') :
                 calls'[i].op = "commit"
                   => /\ i = Len(calls')
                      /\ Len(calls') = Cardinality(DirtyKeys) + 1
                      /\ \A k \in DirtyKeys : \E j \in 1..(i - 1) : calls'[j] = FlushCall(k)]_vars

\* a commit with two dirty entries stopped at the first: one flush call, a
\* LockConflict, and nothing committed
C22_Witness ==
    /\ result.op = "commit"
    /\ result.outcome = "err"
    /\ result.err = LockConflict
    /\ Len(calls) = 1
    /\ calls[1].op \in {"update_row", "delete_row"}
    /\ Cardinality({k \in DOMAIN objects : heap[objects[k]].state # "Clean"}) = 2
    /\ status = "failed"

----------------------------------------------------------------------------
(* entries created and then deleted or mutated in the same transaction     *)

\* the entry was created by this transaction: the backend assigned its identity
\* after the last committed one of the table
CreatedHere(k) == k.id > committed[k.schema.table_name].seq

\* calls of that kind for the key in the log of the step's operation
CountCallsAfter(op, k) ==
    Cardinality({i \in 1..Len(calls') : calls'[i] = Call(op, k.schema.table_name, k.id)})

\* C23: when a commit succeeds, an entry created in the transaction on which
\* delete() completed is flushed by one delete_row and nothing else, and its row
\* is absent afterwards; one that was mutated (and not deleted) is flushed by
\* one update_row and nothing else, and its row then reads back as the record
\* in memory; the commit issues no insert_row.
C23_CreatedThenChanged ==
    [][(status = "open" /\ result'.op = "commit" /\ result'.outcome = "ok")
         => /\ \A i \in 1..Len(calls') : calls'[i].op # "insert_row"
            /\ \A k \in DOMAIN objects :
                 LET c == objects[k]
                     rows == committed'[k.schema.table_name].rows
                 IN  /\ (CreatedHere(k) /\ c \in deleted)
                          => /\ CountCallsAfter("delete_row", k) = 1
                             /\ CountCallsAfter("update_row", k) = 0
                             /\ k.id \notin DOMAIN rows
                     /\ (CreatedHere(k) /\ c \notin deleted /\ heap[c].state = "Modified")
                          => /\ CountCallsAfter("update_row", k) = 1
                             /\ CountCallsAfter("delete_row", k) = 0
                             /\ k.id \in DOMAIN rows
                             /\ ReadsBackAs(k.schema, rows[k.id], to_row(k.schema, heap[c].obj))]_vars

----------------------------------------------------------------------------
(* get of a tracked identity whose record slot is mutably borrowed         *)

\* the step is a get of a tracked, not Removed identity whose record slot is
\* mutably borrowed
BorrowedGet ==
    /\ TrackedGet
    /\ heap[objects[Key(result'.schema, result'.id)]].borrow < 0

\* C24 as stated: a get of a tracked, not Removed identity whose record slot is
\* mutably borrowed returns neither a handle nor an error value, it terminates
\* abnormally, and it leaves the entries and the identity map unchanged.
C24_BorrowedGetPanics ==
    [][BorrowedGet
         => /\ result'.outcome = "panic"
            /\ heap' = heap
            /\ objects' = objects]_vars

\* C24, amended: such a get never returns a handle, issues no select_row and
\* leaves the entries, the identity map and the handles unchanged; when the
\* existence check reported the table present it terminates abnormally at the
\* type check, after that one backend call; otherwise it ends with the failure
\* of the create_table it attempted, which may be an error value.
C24_BorrowedGetNoHandle ==
    [][BorrowedGet
         => LET ops == {calls'[i].op : i \in 1..Len(calls')}
            IN  /\ result'.outcome # "ok"
                /\ "select_row" \notin ops
                /\ heap' = heap
                /\ objects' = objects
                /\ handles' = handles
                /\ "create_table" \notin ops
                     => /\ result'.outcome = "panic"
                        /\ status' = "panicked"
                        /\ calls' = <<Call("table_exists", result'.schema.table_name, 0)>>
                /\ "create_table" \in ops
                     => /\ calls'[Len(calls')].op = "create_table"
                        /\ \E f \in Faults :
                             LET cr == create_table(working, result'.schema, f)
                             IN  cr.st = result'.outcome /\ cr.err = result'.err]_vars

\* a get of an identity whose record slot was mutably borrowed ended in a panic
\* after the existence check
C24_Witness ==
    /\ result.op = "get"
    /\ result.outcome = "panic"
    /\ status = "panicked"
    /\ calls = <<Call("table_exists", "A", 0)>>
    /\ Key(result.schema, result.id) \in DOMAIN objects
    /\ heap[objects[Key(result.schema, result.id)]].borrow < 0
    /\ heap[objects[Key(result.schema, result.id)]].state = "Modified"

----------------------------------------------------------------------------
(* create and the entries tracked before it                                *)

\* C25: the identity a successful create returns is one the table never held, no
\* entry is tracked for it under any descriptor of that table, and the create
\* leaves every entry tracked before it in the map with its cell, record, state
\* and borrow flag, and every handle held before it attached to its entry.
C25_CreateNeverReplaces ==
    [][(status = "open" /\ result'.op = "create" /\ result'.outcome = "ok")
         => LET T == result'.schema
                id == result'.id
            IN  /\ Key(T, id) \notin DOMAIN objects
                /\ \A k \in DOMAIN objects :
                     ~(k.schema.table_name = T.table_name /\ k.id = id)
                /\ id > working[T.table_name].seq
                /\ id \notin DOMAIN working[T.table_name].rows
                /\ DOMAIN objects' = DOMAIN objects \cup {Key(T, id)}
                /\ \A k \in DOMAIN objects :
                     /\ objects'[k] = objects[k]
                     /\ heap'[objects[k]] = heap[objects[k]]
                /\ \A h \in handles :
                     /\ h \in handles'
                     /\ objects'[Key(h.ty, h.cell.id)] = h.cell]_vars

\* a create succeeded while another entry was tracked and a handle to it held
C25_Witness ==
    /\ status = "open"
    /\ result.op = "create"
    /\ result.outcome = "ok"
    /\ result.id = 2
    /\ Key(SchemaA, 1) \in DOMAIN objects
    /\ Key(SchemaA, 2) \in DOMAIN objects
    /\ objects[Key(SchemaA, 1)] # objects[Key(SchemaA, 2)]
    /\ \E h \in handles : h.cell = objects[Key(SchemaA, 1)]
    /\ heap[objects[Key(SchemaA, 1)]].state = "Modified"

====
